---- MODULE Spec2Model ----
(***************************************************************************)
(* Model of src/main.py: a CRUD HTTP API over one in-memory list of house  *)
(* records (data_records).  Two specifications are given:                  *)
(*   Spec      every request runs to completion before the next starts;    *)
(*   ConcSpec  requests are served by worker threads, and the read of the  *)
(*             store (max id / index scan) and the mutation that follows   *)
(*             it are separate steps that interleave.                      *)
(* Text values are sequences of one-character strings so that str.lower()  *)
(* is computed and not assumed.  An Optional value is the empty set (None) *)
(* or a singleton set.  Python list positions are 0-based; the positions   *)
(* of the model are 1-based, so Python's i is the model's i - 1.           *)
(***************************************************************************)
EXTENDS Integers, Sequences, FiniteSets, TLC

\* ------------------------------------------------------------------ bounds
MaxRows == 2
MaxLen == 2
MaxId == 2
MaxPage == 2
MaxSize == 1
NumThreads == 2

\* ------------------------------------------------------------ HTTP statuses
StatusOk == 200
StatusNotFound == 404
StatusServerError == 500

\* --------------------------------------------------------------- text values
UpperCase == <<"A","B","C","D","E","F","G","H","I","J","K","L","M",
               "N","O","P","Q","R","S","T","U","V","W","X","Y","Z">>
LowerCase == <<"a","b","c","d","e","f","g","h","i","j","k","l","m",
               "n","o","p","q","r","s","t","u","v","w","x","y","z">>

\* the lower-case form of each upper-case letter
LowerOf ==
    [c \in {UpperCase[k] : k \in 1..Len(UpperCase)} |->
        LowerCase[CHOOSE k \in 1..Len(UpperCase) : UpperCase[k] = c]]

LowerChar(c) == IF c \in DOMAIN LowerOf THEN LowerOf[c] ELSE c

\* str.lower()
Lower(s) == [k \in 1..Len(s) |-> LowerChar(s[k])]

None == {}
Some(v) == {v}
TheValue(o) == CHOOSE v \in o : TRUE

\* ------------------------------------------------------------- input values
CitySea == <<"S","e","a">>
CitySeaLower == <<"s","e","a">>
CityAus == <<"A","u","s">>
ZipWA == <<"W","A","9">>
ZipWALower == <<"w","a","9">>
ZipTX == <<"T","X","7">>

\* The non-id fields of a House that the handlers read (city, statezip, price);
\* the other fields are carried along by dict() exactly as these are.
Rows ==
    { [city |-> CitySea,      statezip |-> ZipWA,      price |-> 300],
      [city |-> CitySeaLower, statezip |-> ZipWALower, price |-> 100],
      [city |-> CityAus,      statezip |-> ZipTX,      price |-> 200] }

BodyIds == {None, Some(0)}

\* A request body: class House, id Optional.
House ==
    { [id |-> b, city |-> r.city, statezip |-> r.statezip, price |-> r.price] :
        b \in BodyIds, r \in Rows }

PathIds == 0..MaxId

Pages == 1..MaxPage
\* size has no lower bound: Query(10, le=100)
Sizes == (0 - 1)..MaxSize

Filter(city, statezip, price_min, price_max) ==
    [city |-> city, statezip |-> statezip, price_min |-> price_min,
     price_max |-> price_max]

\* The filter combinations requests are drawn from: none, each filter alone
\* (city also as the empty string), and filters together.
Filters ==
    { Filter(None, None, None, None),
      Filter(Some(<<>>), None, None, None),
      Filter(Some(CitySea), None, None, None),
      Filter(None, Some(ZipWALower), None, None),
      Filter(None, None, Some(200), None),
      Filter(None, None, None, Some(200)),
      Filter(Some(CitySea), None, Some(200), None),
      Filter(Some(CityAus), Some(ZipTX), Some(200), Some(200)) }

Queries ==
    { [page |-> p, size |-> z, city |-> f.city, statezip |-> f.statezip,
       price_min |-> f.price_min, price_max |-> f.price_max] :
        p \in Pages, z \in Sizes, f \in Filters }

Threads == 1..NumThreads

\* ---------------------------------------------------------------- the state
VARIABLES
    data_records,          \* the store: a sequence of records
    req,                   \* Spec: the request last served (operation, path id)
    resp,                  \* the response last sent
    deleted_ids,           \* Spec: ids of the records deleted so far
    deleted_since_create,  \* Spec: ids of the records deleted since the last create
    pc,                    \* ConcSpec: where each worker thread is
    local                  \* ConcSpec: each worker thread's local variables

vars == <<data_records, req, resp, deleted_ids, deleted_since_create, pc, local>>

\* ------------------------------------------------------------------ helpers
SeqIds(store) == {store[k].id : k \in 1..Len(store)}

SetMax(S) == CHOOSE m \in S : \A x \in S : x <= m

\* mutant of RemoveAt: data_records.pop() in place of del data_records[i]
RemoveLast(store, i) == [k \in 1..(Len(store) - 1) |-> store[k]]

RemoveAt(store, i) ==
    [k \in 1..(Len(store) - 1) |-> IF k < i THEN store[k] ELSE store[k + 1]]

\* enumerate(data_records) ... if house["id"] == house_id: the first position
\* whose record has the id, 0 when there is none.
FindIndex(store, house_id) ==
    IF \E k \in 1..Len(store) : store[k].id = house_id
    THEN CHOOSE k \in 1..Len(store) :
            /\ store[k].id = house_id
            /\ \A j \in 1..(k - 1) : store[j].id # house_id
    ELSE 0

\* mutant of NextId: len(data_records) in place of max(...) + 1
NextIdByLength(store) == Len(store)

\* mutant of NextId: the "+ 1" forgotten
NextIdNoIncrement(store) == SetMax(SeqIds(store))

\* max([d["id"] for d in data_records]) + 1 ; the store is not empty
NextId(store) == SetMax(SeqIds(store)) + 1

\* house.dict() with ["id"] set
WithId(house, id) == [house EXCEPT !.id = id]

\* A response: its status, the "detail" of an HTTPException, the "message" of
\* the delete confirmation, the House returned (an Optional) and the list of
\* Houses returned.
Response(status, detail, message, house, houses) ==
    [status |-> status, detail |-> detail, message |-> message,
     house |-> house, houses |-> houses]

\* raise HTTPException(status_code=404, detail="House not found")
NotFound == Response(StatusNotFound, "House not found", "", None, <<>>)

\* an exception that is no HTTPException: the framework answers 500
ServerError == Response(StatusServerError, "", "", None, <<>>)

Outcome(store, response) == [store |-> store, resp |-> response]

\* ----------------------------------------------------------------- handlers
\* "if city:" is false for None and for the empty string
Truthy(o) == o # None /\ TheValue(o) # <<>>

\* A Python slice bound against a list of length n
SliceIndex(k, n) ==
    IF k < 0 THEN (IF k + n < 0 THEN 0 ELSE k + n)
    ELSE IF k > n THEN n ELSE k

\* s[start:end]
Slice(s, start, end) ==
    LET lo == SliceIndex(start, Len(s))
        hi == SliceIndex(end, Len(s))
    IN  IF lo < hi THEN [k \in 1..(hi - lo) |-> s[lo + k]] ELSE <<>>

FilterCity(s, city) ==
    IF Truthy(city)
    THEN LET Keep(d) == Lower(d.city) = Lower(TheValue(city)) IN SelectSeq(s, Keep)
    ELSE s

FilterStatezip(s, statezip) ==
    IF Truthy(statezip)
    THEN LET Keep(d) == Lower(d.statezip) = Lower(TheValue(statezip))
         IN  SelectSeq(s, Keep)
    ELSE s

\* mutant of FilterPriceMin: the lower bound taken as exclusive
FilterPriceMinStrict(s, price_min) ==
    IF price_min # None
    THEN LET Keep(d) == d.price > TheValue(price_min) IN SelectSeq(s, Keep)
    ELSE s

FilterPriceMin(s, price_min) ==
    IF price_min # None
    THEN LET Keep(d) == d.price >= TheValue(price_min) IN SelectSeq(s, Keep)
    ELSE s

FilterPriceMax(s, price_max) ==
    IF price_max # None
    THEN LET Keep(d) == d.price <= TheValue(price_max) IN SelectSeq(s, Keep)
    ELSE s

Filtered(store, q) ==
    FilterPriceMax(
        FilterPriceMin(
            FilterStatezip(FilterCity(store, q.city), q.statezip),
            q.price_min),
        q.price_max)

\* mutant of GetHouses: pages counted from 0, start = page * size
GetHousesPageFromZero(store, q) ==
    LET start == q.page * q.size
        end == start + q.size
    IN  Outcome(store,
                Response(StatusOk, "", "", None, Slice(Filtered(store, q), start, end)))

\* GET /houses
GetHouses(store, q) ==
    LET start == (q.page - 1) * q.size
        end == start + q.size
    IN  Outcome(store,
                Response(StatusOk, "", "", None, Slice(Filtered(store, q), start, end)))

\* mutant of AppendHouse: data_records.insert(0, house_data)
AppendHouseAtFront(store, house, new_id) ==
    LET house_data == WithId(house, new_id)
    IN  Outcome(<<house_data>> \o store,
                Response(StatusOk, "", "", Some(house_data), <<>>))

\* house_data["id"] = new_id ; data_records.append(house_data) ; return house_data
AppendHouse(store, house, new_id) ==
    LET house_data == WithId(house, new_id)
    IN  Outcome(Append(store, house_data),
                Response(StatusOk, "", "", Some(house_data), <<>>))

\* POST /houses
CreateHouse(store, house) ==
    IF Len(store) = 0
    THEN Outcome(store, ServerError)   \* max() of an empty list: ValueError
    ELSE AppendHouse(store, house, NextId(store))

\* mutant of GetHouse: the record found is taken out of the list (a pop)
GetHousePop(store, house_id) ==
    LET i == FindIndex(store, house_id)
    IN  IF i = 0
        THEN Outcome(store, NotFound)
        ELSE Outcome(RemoveAt(store, i),
                     Response(StatusOk, "", "", Some(store[i]), <<>>))

\* GET /houses/{house_id}
GetHouse(store, house_id) ==
    LET i == FindIndex(store, house_id)
    IN  IF i = 0
        THEN Outcome(store, NotFound)
        ELSE Outcome(store, Response(StatusOk, "", "", Some(store[i]), <<>>))

\* data_records[i] = updated_data ; return updated_data
WriteAt(store, i, updated_data) ==
    Outcome([store EXCEPT ![i] = updated_data],
            Response(StatusOk, "", "", Some(updated_data), <<>>))

\* mutant of UpdateHouse: an id that is not found is appended (an upsert)
UpdateHouseUpsert(store, house_id, updated_house) ==
    LET i == FindIndex(store, house_id)
    IN  IF i = 0
        THEN AppendHouse(store, updated_house, house_id)
        ELSE WriteAt(store, i, WithId(updated_house, house_id))

\* mutant of UpdateHouse: the path id is forced only when the body carries none
UpdateHouseKeepBodyId(store, house_id, updated_house) ==
    LET i == FindIndex(store, house_id)
        id == IF updated_house.id = None THEN house_id ELSE TheValue(updated_house.id)
    IN  IF i = 0
        THEN Outcome(store, NotFound)
        ELSE WriteAt(store, i, WithId(updated_house, id))

\* mutant of UpdateHouse: the record is removed and the new one appended
UpdateHouseMoveToEnd(store, house_id, updated_house) ==
    LET i == FindIndex(store, house_id)
    IN  IF i = 0
        THEN Outcome(store, NotFound)
        ELSE AppendHouse(RemoveAt(store, i), updated_house, house_id)

\* PUT /houses/{house_id}
UpdateHouse(store, house_id, updated_house) ==
    LET i == FindIndex(store, house_id)
    IN  IF i = 0
        THEN Outcome(store, NotFound)
        ELSE WriteAt(store, i, WithId(updated_house, house_id))

\* del data_records[i] ; return {"message": "House deleted"}
DeleteAt(store, i) ==
    Outcome(RemoveAt(store, i), Response(StatusOk, "", "House deleted", None, <<>>))

\* DELETE /houses/{house_id}
DeleteHouse(store, house_id) ==
    LET i == FindIndex(store, house_id)
    IN  IF i = 0 THEN Outcome(store, NotFound) ELSE DeleteAt(store, i)

\* ---------------------------------------------------------------- requests
Request(op, house_id) == [op |-> op, house_id |-> house_id]

IdleLocal == [house_id |-> None, house |-> None, i |-> 0, new_id |-> 0]

\* data["id"] = data.index ; data.to_dict(orient="records")
BulkLoad(rows) ==
    [k \in 1..Len(rows) |->
        [id |-> k - 1, city |-> rows[k].city, statezip |-> rows[k].statezip,
         price |-> rows[k].price]]

Init ==
    /\ \E n \in 0..MaxRows : \E rows \in [1..n -> Rows] :
            data_records = BulkLoad(rows)
    /\ req = Request("start", None)
    /\ resp = Response(StatusOk, "", "", None, <<>>)
    /\ deleted_ids = {}
    /\ deleted_since_create = {}
    /\ pc = [t \in Threads |-> "idle"]
    /\ local = [t \in Threads |-> IdleLocal]

\* The store after a create stays within the bounds of the model.
CreateInBounds(store) ==
    /\ Len(store) < MaxLen
    /\ Len(store) > 0 => NextId(store) <= MaxId

\* ------------------------------------------- Spec: one request at a time
List(q) ==
    LET out == GetHouses(data_records, q)
    IN  /\ data_records' = out.store
        /\ resp' = out.resp
        /\ req' = Request("list", None)
        /\ UNCHANGED <<deleted_ids, deleted_since_create, pc, local>>

Create(house) ==
    LET out == CreateHouse(data_records, house)
    IN  /\ CreateInBounds(data_records)
        /\ data_records' = out.store
        /\ resp' = out.resp
        /\ req' = Request("create", None)
        /\ deleted_since_create' =
              IF out.resp.status = StatusOk THEN {} ELSE deleted_since_create
        /\ UNCHANGED <<deleted_ids, pc, local>>

Get(house_id) ==
    LET out == GetHouse(data_records, house_id)
    IN  /\ data_records' = out.store
        /\ resp' = out.resp
        /\ req' = Request("get", Some(house_id))
        /\ UNCHANGED <<deleted_ids, deleted_since_create, pc, local>>

Update(house_id, house) ==
    LET out == UpdateHouse(data_records, house_id, house)
    IN  /\ data_records' = out.store
        /\ resp' = out.resp
        /\ req' = Request("update", Some(house_id))
        /\ UNCHANGED <<deleted_ids, deleted_since_create, pc, local>>

Delete(house_id) ==
    LET out == DeleteHouse(data_records, house_id)
        done == out.resp.status = StatusOk
    IN  /\ data_records' = out.store
        /\ resp' = out.resp
        /\ req' = Request("delete", Some(house_id))
        /\ deleted_ids' = IF done THEN deleted_ids \cup {house_id} ELSE deleted_ids
        /\ deleted_since_create' =
              IF done THEN deleted_since_create \cup {house_id}
              ELSE deleted_since_create
        /\ UNCHANGED <<pc, local>>

Next ==
    \/ \E q \in Queries : List(q)
    \/ \E house \in House : Create(house)
    \/ \E house_id \in PathIds : Get(house_id)
    \/ \E house_id \in PathIds, house \in House : Update(house_id, house)
    \/ \E house_id \in PathIds : Delete(house_id)

Spec == Init /\ [][Next]_vars

\* ------------------------- ConcSpec: requests served by worker threads
\* The handlers are plain "def" functions, which the framework runs on a pool
\* of worker threads.  A thread can be preempted between the statement that
\* reads the store (line 77; the scan of lines 100-101 and 114-115) and the
\* statement that changes it (line 80; line 104; line 116).  The handlers that
\* only read the store are left out of this specification.
Idle(t) == [pc EXCEPT ![t] = "idle"]

\* line 77: new_id = max(...) + 1
CreateRead(t, house) ==
    /\ pc[t] = "idle"
    /\ CreateInBounds(data_records)
    /\ IF Len(data_records) = 0
       THEN /\ resp' = ServerError
            /\ UNCHANGED <<pc, local>>
       ELSE /\ pc' = [pc EXCEPT ![t] = "create_append"]
            /\ local' = [local EXCEPT ![t] =
                            [IdleLocal EXCEPT !.house = Some(house),
                                              !.new_id = NextId(data_records)]]
            /\ UNCHANGED resp
    /\ UNCHANGED <<data_records, req, deleted_ids, deleted_since_create>>

\* lines 78-81
CreateAppend(t) ==
    LET out == AppendHouse(data_records, TheValue(local[t].house), local[t].new_id)
    IN  /\ pc[t] = "create_append"
        /\ data_records' = out.store
        /\ resp' = out.resp
        /\ pc' = Idle(t)
        /\ local' = [local EXCEPT ![t] = IdleLocal]
        /\ UNCHANGED <<req, deleted_ids, deleted_since_create>>

\* lines 100-101 (and 106 when no record has the id)
UpdateScan(t, house_id, house) ==
    LET i == FindIndex(data_records, house_id)
    IN  /\ pc[t] = "idle"
        /\ IF i = 0
           THEN /\ resp' = NotFound
                /\ UNCHANGED <<pc, local>>
           ELSE /\ pc' = [pc EXCEPT ![t] = "update_write"]
                /\ local' = [local EXCEPT ![t] =
                                [IdleLocal EXCEPT !.house_id = Some(house_id),
                                                  !.house = Some(house), !.i = i]]
                /\ UNCHANGED resp
        /\ UNCHANGED <<data_records, req, deleted_ids, deleted_since_create>>

\* lines 102-105; data_records[i] = ... raises IndexError past the end
UpdateWrite(t) ==
    LET i == local[t].i
        out == IF i <= Len(data_records)
               THEN WriteAt(data_records, i,
                            WithId(TheValue(local[t].house),
                                   TheValue(local[t].house_id)))
               ELSE Outcome(data_records, ServerError)
    IN  /\ pc[t] = "update_write"
        /\ data_records' = out.store
        /\ resp' = out.resp
        /\ pc' = Idle(t)
        /\ local' = [local EXCEPT ![t] = IdleLocal]
        /\ UNCHANGED <<req, deleted_ids, deleted_since_create>>

\* lines 114-115 (and 118 when no record has the id)
DeleteScan(t, house_id) ==
    LET i == FindIndex(data_records, house_id)
    IN  /\ pc[t] = "idle"
        /\ IF i = 0
           THEN /\ resp' = NotFound
                /\ UNCHANGED <<pc, local>>
           ELSE /\ pc' = [pc EXCEPT ![t] = "delete_del"]
                /\ local' = [local EXCEPT ![t] =
                                [IdleLocal EXCEPT !.house_id = Some(house_id),
                                                  !.i = i]]
                /\ UNCHANGED resp
        /\ UNCHANGED <<data_records, req, deleted_ids, deleted_since_create>>

\* lines 116-117; del data_records[i] raises IndexError past the end
DeleteDel(t) ==
    LET i == local[t].i
        hit == i <= Len(data_records)
        out == IF hit THEN DeleteAt(data_records, i)
               ELSE Outcome(data_records, ServerError)
    IN  /\ pc[t] = "delete_del"
        /\ data_records' = out.store
        /\ resp' = out.resp
        /\ pc' = Idle(t)
        /\ local' = [local EXCEPT ![t] = IdleLocal]
        /\ UNCHANGED <<req, deleted_ids, deleted_since_create>>

ConcNext ==
    \/ \E t \in Threads, house \in House : CreateRead(t, house)
    \/ \E t \in Threads : CreateAppend(t)
    \/ \E t \in Threads, house_id \in PathIds, house \in House :
            UpdateScan(t, house_id, house)
    \/ \E t \in Threads : UpdateWrite(t)
    \/ \E t \in Threads, house_id \in PathIds : DeleteScan(t, house_id)
    \/ \E t \in Threads : DeleteDel(t)

ConcSpec == Init /\ [][ConcNext]_vars

\* ------------------------------------------------------------------ claims
CreatedOk == req.op = "create" /\ resp.status = StatusOk
CreatedId == TheValue(resp.house).id

\* C1: under Spec, every record of the store has an integer id and no two
\* records of the store have the same id.
C1_UniqueNonNullIds ==
    /\ \A k \in 1..Len(data_records) : data_records[k].id \in Nat
    /\ \A j, k \in 1..Len(data_records) :
            j # k => data_records[j].id # data_records[k].id

\* C1 witness: a create has followed a delete and the store holds two records.
C1_Witness ==
    /\ CreatedOk
    /\ deleted_ids # {}
    /\ Len(data_records) >= 2

\* C2: ids are never reused: a Create never assigns an id that a deleted
\* record held.
C2_NoIdReuse == CreatedOk => CreatedId \notin deleted_ids

\* C3: a Create on a non-empty store whose maximum id is M assigns M + 1, which
\* is greater than every id in the store; and when the new record is deleted,
\* the Create after that assigns an id >= M + 1.
C3_IdMonotonic ==
    [][\A house \in House :
        (req'.op = "create" /\ Create(house) /\ Len(data_records) > 0) =>
            /\ resp'.status = StatusOk
            /\ resp'.house # None
            /\ \E M \in SeqIds(data_records) :
                /\ \A x \in SeqIds(data_records) : x <= M
                /\ TheValue(resp'.house).id = M + 1
                /\ LET deleted == DeleteHouse(data_records', M + 1)
                   IN  /\ deleted.resp.status = StatusOk
                       /\ \A again \in House :
                            LET second == CreateHouse(deleted.store, again)
                            IN  /\ second.resp.status = StatusOk
                                /\ TheValue(second.resp.house).id >= M + 1
       ]_vars

\* C3 witness: a Create has assigned an id whose earlier holder was deleted.
C3_Witness == CreatedOk /\ CreatedId \in deleted_ids

\* C4: under ConcSpec, with creates served concurrently, no two records of the
\* store have the same id.
C4_ConcurrentCreatesUniqueIds ==
    Cardinality(SeqIds(data_records)) = Len(data_records)

\* C5: under ConcSpec, the mutation step of a Delete or Update request for id X
\* never removes or overwrites a record whose id is not X.
C5_NoMisdirectedMutation ==
    [][\A t \in Threads :
        (/\ pc[t] \in {"update_write", "delete_del"}
         /\ pc'[t] = "idle"
         /\ data_records' # data_records) =>
            data_records[local[t].i].id = TheValue(local[t].house_id)
       ]_vars

\* C6: Create(h) returns a record whose non-id fields are h's and whose id is
\* none of the ids the store held, whatever id h carried; a Get of that id
\* right after it returns the same record.
C6_CreateRoundTrip ==
    [][\A house \in House :
        (req'.op = "create" /\ Create(house)) =>
            /\ resp'.status = StatusOk
            /\ resp'.house # None
            /\ LET created == TheValue(resp'.house)
               IN  /\ created.city = house.city
                   /\ created.statezip = house.statezip
                   /\ created.price = house.price
                   /\ created.id \in Nat
                   /\ created.id \notin SeqIds(data_records)
                   /\ GetHouse(data_records', created.id).resp
                        = Response(StatusOk, "", "", Some(created), <<>>)
       ]_vars

\* C7: an id deleted since the last create is not found by Get and is in no
\* List result, whatever the filters, page and size.
C7_DeletedIsGone ==
    \A id \in deleted_since_create :
        /\ GetHouse(data_records, id).resp = NotFound
        /\ \A q \in Queries :
            id \notin SeqIds(GetHouses(data_records, q).resp.houses)

\* C7 witness: a record was deleted and an update of another record followed.
C7_Witness ==
    /\ deleted_since_create # {}
    /\ req.op = "update"
    /\ resp.status = StatusOk

\* C8: a Create on the empty store does not fail: it answers 200 and the store
\* then holds the new record.
C8_EmptyStoreCreate ==
    [][\A house \in House :
        (req'.op = "create" /\ Create(house) /\ Len(data_records) = 0) =>
            /\ resp'.status = StatusOk
            /\ Len(data_records') = 1
       ]_vars

\* C9: a Get, Update or Delete of an id no record has answers 404 with detail
\* "House not found" and leaves the store as it was.
C9_NotFoundLeavesStore ==
    [][\A house_id \in PathIds :
        (/\ req'.op \in {"get", "update", "delete"}
         /\ \A k \in 1..Len(data_records) : data_records[k].id # house_id
         /\ \/ Get(house_id)
            \/ Delete(house_id)
            \/ \E house \in House : Update(house_id, house)) =>
            /\ resp'.status = StatusNotFound
            /\ resp'.detail = "House not found"
            /\ data_records' = data_records
       ]_vars

\* C9 witness: a Delete of an id missing from a non-empty store was answered.
C9_Witness ==
    /\ req.op = "delete"
    /\ resp.status = StatusNotFound
    /\ Len(data_records) > 0

\* C10: after Update(id, h) on an id of the store, a second Update(id, h)
\* leaves the store as it is and returns the record the first one returned.
C10_UpdateIdempotent ==
    [][\A house_id \in PathIds, house \in House :
        (/\ req'.op = "update"
         /\ Update(house_id, house)
         /\ \E k \in 1..Len(data_records) : data_records[k].id = house_id) =>
            LET again == UpdateHouse(data_records', house_id, house)
            IN  /\ again.store = data_records'
                /\ again.resp = resp'
                /\ resp'.status = StatusOk
       ]_vars

\* C10 witness: an Update was served for a path id other than 0, the one id a
\* request body carries.
C10_Witness ==
    /\ req.op = "update"
    /\ resp.status = StatusOk
    /\ TheValue(resp.house).id # 0

\* ---- the filters of List, one at a time and in any order
FilterNames == {"city", "statezip", "price_min", "price_max"}

ApplyFilter(name, s, q) ==
    CASE name = "city" -> FilterCity(s, q.city)
      [] name = "statezip" -> FilterStatezip(s, q.statezip)
      [] name = "price_min" -> FilterPriceMin(s, q.price_min)
      [] name = "price_max" -> FilterPriceMax(s, q.price_max)

FilterOrders ==
    {o \in [1..4 -> FilterNames] : \A j, k \in 1..4 : j # k => o[j] # o[k]}

FilteredInOrder(store, q, o) ==
    ApplyFilter(o[4], ApplyFilter(o[3], ApplyFilter(o[2], ApplyFilter(o[1], store, q), q), q), q)

\* d passes the filters of q; Given(o) says whether a text filter is supplied
PassesFilters(d, q, Given(_)) ==
    /\ Given(q.city) => Lower(d.city) = Lower(TheValue(q.city))
    /\ Given(q.statezip) => Lower(d.statezip) = Lower(TheValue(q.statezip))
    /\ q.price_min # None => d.price >= TheValue(q.price_min)
    /\ q.price_max # None => d.price <= TheValue(q.price_max)

\* a List request was the last one served
ListServed == req.op = "list"

FilterConjunction(Given(_)) ==
    ListServed =>
        \A f \in Filters :
            LET Keep(d) == PassesFilters(d, f, Given)
            IN  /\ Filtered(data_records, f) = SelectSeq(data_records, Keep)
                /\ \A o \in FilterOrders :
                        FilteredInOrder(data_records, f, o) = Filtered(data_records, f)

IsPresent(o) == o # None
IsNonEmpty(o) == o # None /\ TheValue(o) # <<>>

\* C11 (as claimed): when a List is served, before pagination it works on
\* exactly the records of the store that pass every filter present in the
\* request (city and statezip equal ignoring case, price_min <= price <=
\* price_max), whatever the order the filters are applied in.
C11_FilterConjunction == FilterConjunction(IsPresent)

\* C11 (amended): the same, where a city or statezip given as the empty string
\* counts as not supplied.
C11_FilterConjunctionNonEmpty == FilterConjunction(IsNonEmpty)

\* C11 witness: a List was answered from a store of two records of which the
\* city and price_min filters together keep one, the second.
C11_Witness ==
    /\ req.op = "list"
    /\ Len(data_records) = 2
    /\ \E f \in Filters :
        /\ f.city # None /\ f.price_min # None
        /\ Filtered(data_records, f) = <<data_records[2]>>
        /\ resp.houses = <<data_records[2]>>

\* the houses List answers q with
Listed(store, q) == GetHouses(store, q).resp.houses

\* a store of eleven rows, for the page of ten
ElevenRows == BulkLoad([k \in 1..11 |-> CHOOSE r \in Rows : r.price = 100 * (1 + (k % 3))])

\* the unfiltered query for a page of size 10
PageOfTen(page) ==
    [page |-> page, size |-> 10, city |-> None, statezip |-> None,
     price_min |-> None, price_max |-> None]

\* C12: for page >= 1 and size >= 1 List answers with the elements of the
\* filtered sequence at (0-based) positions (page-1)*size up to, not including,
\* (page-1)*size + size, in that order, as far as the sequence goes, and with
\* the empty sequence and status 200 when it does not reach the first of them;
\* page 1 of size 10 of eleven unfiltered records is the first ten, page 2 the
\* eleventh.
C12_PaginationAfterFiltering ==
    ListServed =>
        /\ \A q \in Queries :
            q.size >= 1 =>
                LET all == Filtered(data_records, q)
                    start == (q.page - 1) * q.size
                    got == Listed(data_records, q)
                    wanted == {p \in start..(start + q.size - 1) : p < Len(all)}
                IN  /\ GetHouses(data_records, q).resp.status = StatusOk
                    /\ Len(got) = Cardinality(wanted)
                    /\ \A k \in 1..Len(got) : got[k] = all[start + k]
                    /\ start >= Len(all) => got = <<>>
        /\ Listed(ElevenRows, PageOfTen(1)) = SubSeq(ElevenRows, 1, 10)
        /\ Listed(ElevenRows, PageOfTen(2)) = SubSeq(ElevenRows, 11, 11)

\* C12 witness: a List was answered with page 2 of size 1 of a filtered
\* sequence of two records, its second record.
C12_Witness ==
    /\ ListServed
    /\ \E q \in Queries :
        /\ q.page = 2 /\ q.size = 1
        /\ Len(Filtered(data_records, q)) = 2
        /\ resp.houses = <<Filtered(data_records, q)[2]>>
        /\ resp.houses # <<data_records[1]>>

\* C15: for every page > 0 and size <= 100 List answers with at most size
\* records (so at most 100), and with none when size is 0 or negative.
C15_SizeBoundsResponse ==
    ListServed =>
        \A q \in Queries :
            (q.page > 0 /\ q.size <= 100) =>
                /\ Len(Listed(data_records, q)) <= 100
                /\ q.size >= 0 => Len(Listed(data_records, q)) <= q.size
                /\ q.size <= 0 => Listed(data_records, q) = <<>>

\* C13: a successful Update(id, body) stores at the position of the record with
\* the id a record with the path id, whatever id the body carries, and the
\* body's other fields; the store keeps its length and its other records.
C13_UpdateInPlace ==
    [][\A house_id \in PathIds, house \in House :
        (req'.op = "update" /\ Update(house_id, house) /\ resp'.status = StatusOk) =>
            \E i \in 1..Len(data_records) :
                /\ data_records[i].id = house_id
                /\ Len(data_records') = Len(data_records)
                /\ data_records'[i].id = house_id
                /\ data_records'[i].city = house.city
                /\ data_records'[i].statezip = house.statezip
                /\ data_records'[i].price = house.price
                /\ resp'.house = Some(data_records'[i])
                /\ \A k \in 1..Len(data_records) :
                        k # i => data_records'[k] = data_records[k]
       ]_vars

\* C13 witness: an Update of the first of two records was served.
C13_Witness ==
    /\ req.op = "update"
    /\ resp.status = StatusOk
    /\ Len(data_records) = 2
    /\ resp.house = Some(data_records[1])

\* the sequence s without its element at position i
Without(s, i) == SubSeq(s, 1, i - 1) \o SubSeq(s, i + 1, Len(s))

\* the ids of the store, in the order of the store
IdsInOrder(store) == [k \in 1..Len(store) |-> store[k].id]

\* the unfiltered query for page 1 of the size of the store
WholeStoreQuery(store) ==
    [page |-> 1, size |-> Len(store), city |-> None, statezip |-> None,
     price_min |-> None, price_max |-> None]

InsertionOrderStep ==
    /\ \A house \in House :
        (req'.op = "create" /\ Create(house) /\ resp'.status = StatusOk) =>
            /\ Len(data_records') = Len(data_records) + 1
            /\ SubSeq(data_records', 1, Len(data_records)) = data_records
            /\ resp'.house = Some(data_records'[Len(data_records')])
    /\ \A house_id \in PathIds :
        (req'.op = "delete" /\ Delete(house_id) /\ resp'.status = StatusOk) =>
            \E i \in 1..Len(data_records) :
                /\ data_records[i].id = house_id
                /\ data_records' = Without(data_records, i)
    /\ req'.op \in {"update", "list", "get"} =>
            IdsInOrder(data_records') = IdsInOrder(data_records)
    /\ req'.op = "list" =>
            Listed(data_records', WholeStoreQuery(data_records')) = data_records'

InRowOrder == IdsInOrder(data_records) = [k \in 1..Len(data_records) |-> k - 1]

\* C14: the store is in insertion order: it starts as the rows in row order, a
\* Create appends its record at the end, a successful Delete takes out exactly
\* the one record with the id and leaves the others as they are and in their
\* order, and no other request moves a record; an unfiltered List that covers
\* the store answers with the store in that order.
C14_InsertionOrder == InRowOrder /\ [][InsertionOrderStep]_vars

\* C14 witness: a record was created after a delete and stands last, behind a
\* record with a smaller id.
C14_Witness ==
    /\ CreatedOk
    /\ deleted_ids # {}
    /\ Len(data_records) = 2
    /\ data_records[2].id = CreatedId
    /\ data_records[1].id < CreatedId

\* C16: a List and a Get, found or not, leave the store as it was.
C16_ReadsHaveNoEffect ==
    [][req'.op \in {"list", "get"} => data_records' = data_records]_vars

\* C16 witness: a Get that found its record was served from a store of two.
C16_Witness ==
    /\ req.op = "get"
    /\ resp.status = StatusOk
    /\ Len(data_records) = 2

====
